---------------------------- MODULE Spec2Model ----------------------------
(***************************************************************************)
(* Position lifecycle of the trading engine (src/src/core/TradingEngine.ts *)
(* driven by src/src/core/Aelio.ts).                                       *)
(*                                                                         *)
(* The engine runs on one JavaScript thread: code between two awaits is    *)
(* atomic, and tasks interleave only at awaits.  Every action below is one *)
(* such segment of one task.  An await on a collaborator (price feed,      *)
(* execution venue, durable store, signal source) either returns or        *)
(* throws; consecutive awaits that touch no engine state are taken in one  *)
(* step.  A write to the durable store takes effect in the step in which   *)
(* the task resumes from it.                                               *)
(***************************************************************************)
EXTENDS Integers, FiniteSets, Sequences, TLC

(* ------------------------------ bounds -------------------------------- *)

\* evaluateTradeOpportunity calls in one behaviour
MaxEntries == 1
\* the same where only the entry path runs
AdmitEntries == 3
\* timer fires that start a monitoring round in one behaviour
MaxRounds == 2
\* the same where the engine is stopped as well
StopRounds == 1
\* start() calls in one behaviour: where positions are monitored or the engine
\* is stopped, and where not
MaxStarts == 1
OverlapStarts == 2
\* evaluateTradeOpportunity calls where the engine is only started
StartEntries == 2
\* stop() calls in one behaviour: where positions are monitored, and where not
MonitoredStops == 1
MaxStops == 2
\* calls to a collaborator that throw or are refused in one behaviour
MaxFaults == 2
\* evaluateTradeOpportunity calls where only the sizing runs
SizeEntries == 2
\* the same where entries are made at any price
LevelEntries == 2
\* connect() calls, disconnect() calls and connection losses of the DatabaseService
MaxConnects == 1
MaxDisconnects == 1
MaxDrops == 2
\* monitoring rounds that are counted before the round number stays
LiveRounds == 1
\* readings of the millisecond clock beyond the first
MaxClock == 2

(* ------------------------ configuration values ------------------------ *)

\* config.trading.maxPositions, scaled down so that three instruments reach it
maxPositions == 2
\* config.trading.stopLossPercentage (0.2) and takeProfitPercentage (2), in percent
stopLossPercentage == 20
takeProfitPercentage == 200
\* trailing stop: activation threshold and trail distance, in percent
trailStopActivationPercentage == 5
trailStopDistance == 2
\* volatility above which the take-profit is recomputed, and its multiplier
volatilityThreshold == 5
volatilityTPMultiplier == 1

\* config.trading.minConfidenceScore (0.85), in percent
minConfidenceScore == 85
\* config.trading.maxPositionSizeSOL and minPositionSizeSOL, in SOL
maxPositionSizeSOL == 5
minPositionSizeSOL == 3

Tokens == {"T1", "T2", "T3"}
\* tokenData.price of a discovered token
EntryPrices == {100}
\* tokenData.price as the market data may carry it: none, the smallest, a usual one
AnyEntryPrices == {0, 1, 100}
\* calculatePositionSize result (between minPositionSizeSOL and maxPositionSizeSOL)
Quantities == {3}
\* prices the feed may return while a position is monitored
Prices == {50, 150, 300}
\* the same, with the price of an instrument that has none
AnyPrices == {0, 50, 150, 300}
\* volatility the feed's history may yield, in percent
Volatilities == {0, 10}
\* prices and volatilities of a rally: the price runs beyond the base take-profit
RallyPrices == {150, 400}
RallyVolatilities == {0, 10, 50}
\* confidence of the signal aiTrader.evaluateToken returns, in percent
Confidences == {50, 90, 100}
\* the wallet's balance, in SOL
Balances == {1, 10, 100}
\* config.trading.positionSizePercentage and maxPositionSizePercentage, in percent
SizeFractions == {5, 50}
CeilingFractions == {10, 100}

Sizings ==
    [balance : Balances, positionSizePercentage : SizeFractions,
     maxPositionSizePercentage : CeilingFractions]

(* ------------------------------ records ------------------------------- *)

\* an optional numeric field that is absent (undefined)
Undef == 0 - 999

\* what Date.now() returns, in milliseconds since the engine was constructed
VARIABLE now
\* an optional string field that is absent
NoReason == "none"

NoPos == [id |-> 0]
NoSig == [type |-> "none"]

\* JavaScript comparisons with undefined are false
Leq(a, b) == a # Undef /\ b # Undef /\ a <= b
Gt(a, b) == a # Undef /\ b # Undef /\ a > b

\* JavaScript's Infinity
Infinity == 999999

\* num / den * 100: a division by 0 yields NaN for 0 / 0 (held as an absent
\* number, every comparison with it is false) and an infinity otherwise
Percent(num, den) ==
    IF den # 0 THEN (num * 100) \div den
    ELSE IF num = 0 THEN Undef
    ELSE IF num > 0 THEN Infinity ELSE 0 - Infinity

calculateStopLoss(entryPrice) == (entryPrice * (100 - stopLossPercentage)) \div 100

calculateTakeProfit(entryPrice) == (entryPrice * (100 + takeProfitPercentage)) \div 100

calculateDynamicTakeProfit(position, volatility) ==
    LET baseTP == (position.entryPrice * (100 + takeProfitPercentage)) \div 100
        volatilityAdjustment == volatility * volatilityTPMultiplier
    IN  (baseTP * (100 + volatilityAdjustment)) \div 100

\* the entry signal built by evaluateTradeOpportunity
EntrySignal(t, price, qty) ==
    [tokenAddress |-> t, type |-> "entry", price |-> price, quantity |-> qty,
     stopLoss |-> calculateStopLoss(price), takeProfit |-> calculateTakeProfit(price),
     reason |-> NoReason]

\* the exit signal built by closePosition: no stopLoss, no takeProfit
ExitSignal(position, currentPrice, reason) ==
    [tokenAddress |-> position.tokenAddress, type |-> "exit", price |-> currentPrice,
     quantity |-> position.quantity, stopLoss |-> Undef, takeProfit |-> Undef,
     reason |-> reason]

\* the position handleSuccessfulTrade builds from a signal
NewPosition(id, signal) ==
    [id |-> id, tokenAddress |-> signal.tokenAddress, entryPrice |-> signal.price,
     quantity |-> signal.quantity, stopLoss |-> signal.stopLoss,
     takeProfit |-> signal.takeProfit, currentPrice |-> signal.price,
     unrealizedPnL |-> 0, pnlPercentage |-> 0, status |-> "active",
     exitPrice |-> Undef, realizedPnL |-> Undef, closeReason |-> NoReason,
     lastUpdated |-> now]

\* an updatedPosition that carries the new price and the old unrealizedPnL
MetricsUpdatePriceOnly(position, currentPrice) ==
    [position EXCEPT !.currentPrice = currentPrice,
                     !.pnlPercentage = Percent(currentPrice - position.entryPrice,
                                               position.entryPrice),
                     !.lastUpdated = now]

\* updatedPosition of updatePositionMetrics
MetricsUpdate(position, currentPrice) ==
    [position EXCEPT !.currentPrice = currentPrice,
                     !.unrealizedPnL = (currentPrice - position.entryPrice) * position.quantity,
                     !.pnlPercentage = Percent(currentPrice - position.entryPrice,
                                               position.entryPrice),
                     !.lastUpdated = now]

\* closedPosition of handleSuccessfulClose
ClosedPosition(position, exitSignal, reason) ==
    LET realizedPnL == (exitSignal.price - position.entryPrice) * position.quantity
    IN  [position EXCEPT !.status = "closed",
                         !.exitPrice = exitSignal.price,
                         !.realizedPnL = realizedPnL,
                         !.pnlPercentage = Percent(realizedPnL,
                                                   position.entryPrice * position.quantity),
                         !.closeReason = reason]

\* the record forceClosePosition persists
ForceClosedPosition(position) ==
    [position EXCEPT !.status = "force_closed", !.closeReason = "force_close"]

\* Position.findOneAndUpdate({id}, position): the fields the update carries
\* replace the stored ones, the fields it does not carry are kept
MergeUpdate(old, upd) ==
    [id |-> old.id,
     tokenAddress |-> upd.tokenAddress,
     entryPrice |-> upd.entryPrice,
     quantity |-> upd.quantity,
     stopLoss |-> IF upd.stopLoss = Undef THEN old.stopLoss ELSE upd.stopLoss,
     takeProfit |-> IF upd.takeProfit = Undef THEN old.takeProfit ELSE upd.takeProfit,
     currentPrice |-> upd.currentPrice,
     unrealizedPnL |-> upd.unrealizedPnL,
     pnlPercentage |-> upd.pnlPercentage,
     status |-> upd.status,
     exitPrice |-> IF upd.exitPrice = Undef THEN old.exitPrice ELSE upd.exitPrice,
     realizedPnL |-> IF upd.realizedPnL = Undef THEN old.realizedPnL ELSE upd.realizedPnL,
     closeReason |-> IF upd.closeReason = NoReason THEN old.closeReason ELSE upd.closeReason,
     lastUpdated |-> upd.lastUpdated]



(* ------------------------------- state -------------------------------- *)

VARIABLES
    isRunning,               \* TradingEngine.isRunning
    activePositions,         \* TradingEngine.activePositions: token -> Position or NoPos
    db,                      \* the Position collection: a sequence, the id is the index
    exits,                   \* per position id, the exit trades the venue has settled
    failedTrades,            \* the FailedTrade collection, a bag
    events,                  \* what the engine has emitted, a bag
    tasks,                   \* async executions in flight
    timers,                  \* live setInterval timers
    closePositionsOnShutdown,\* config.trading.closePositionsOnShutdown
    sizing,                  \* the wallet's balance and the sizing fractions of the config
    aelioRunning,            \* Aelio.isRunning
    startPc,                 \* where start() is: "idle", "loading"
    stopPc,                  \* per stop() call, where it is: "closing", "done"
    shutdownIds,             \* ids of the positions closeAllPositions took
    entryCount, roundCount, startCount, stopCount,
    faults,                  \* collaborator calls that have failed so far
    isConnected,             \* DatabaseService.isConnected
    link,                    \* the mongoose connection: "closed" or "open"
    connecting,              \* connect() calls awaiting mongoose.connect
    reconnecting,            \* attemptReconnection calls awaiting connect()
    retryTimers,             \* pending setTimeout(attemptReconnection)
    disconnectPc,            \* per disconnect() call: "closing", "closed", "done", "failed"
    connectCount, dropCount  \* connect() calls and connection losses so far

vars == <<isRunning, activePositions, db, exits, failedTrades, events, tasks, timers,
          closePositionsOnShutdown, sizing, now, aelioRunning, startPc, stopPc, shutdownIds,
          entryCount, roundCount, startCount, stopCount, faults,
          isConnected, link, connecting, reconnecting, retryTimers, disconnectPc,
          connectCount, dropCount>>

\* the state of the DatabaseService
database == <<isConnected, link, connecting, reconnecting, retryTimers, disconnectPc,
              connectCount, dropCount>>

store == <<activePositions, db>>
logs == <<failedTrades, events>>
life == <<isRunning, timers, closePositionsOnShutdown, sizing, now, database, aelioRunning, startPc, stopPc,
          shutdownIds>>
counts == <<entryCount, roundCount, startCount, stopCount>>

\* the state after construction, with the shutdown flag and the sizing inputs
\* as configured
InitOf(flags, sizings) ==
    /\ isRunning = FALSE
    /\ activePositions = [t \in Tokens |-> NoPos]
    /\ db = << >>
    /\ exits = << >>
    /\ failedTrades = {}
    /\ events = {}
    /\ tasks = {}
    /\ timers = 0
    /\ closePositionsOnShutdown \in flags
    /\ sizing \in sizings
    /\ now = 0
    /\ aelioRunning = FALSE
    /\ startPc = "idle"
    /\ stopPc = << >>
    /\ shutdownIds = {}
    /\ entryCount = 0
    /\ roundCount = 0
    /\ startCount = 0
    /\ stopCount = 0
    /\ faults = 0
    /\ isConnected = FALSE
    /\ link = "closed"
    /\ connecting = 0
    /\ reconnecting = 0
    /\ retryTimers = 0
    /\ disconnectPc = << >>
    /\ connectCount = 0
    /\ dropCount = 0

\* a wallet and fractions that size every entry between the two limits
DefaultSizing ==
    [balance |-> 100, positionSizePercentage |-> 5, maxPositionSizePercentage |-> 10]

InitWith(flags) == InitOf(flags, {DefaultSizing})

\* closePositionsOnShutdown as src/src/config/config.ts sets it
Init == InitWith({FALSE})

\* closePositionsOnShutdown either way
InitAnyConfig == InitWith(BOOLEAN)

\* activePositions.size
ActiveCount == Cardinality({t \in Tokens : activePositions[t].id # 0})

\* Array.from(activePositions.values())
ActiveValues == {activePositions[t] : t \in {u \in Tokens : activePositions[u].id # 0}}

\* a bag as the set of <<x, n>>, n = 1 .. the number of times x was added
Count(bag, x) == Cardinality({e \in bag : e[1] = x})

Add(bag, x) == bag \cup {<<x, Count(bag, x) + 1>>}

\* an emitted event
Event(topic, id, token, detail) ==
    [topic |-> topic, id |-> id, token |-> token, detail |-> detail]

\* n more collaborator calls fail in this step
Fault(n) == faults + n <= MaxFaults /\ faults' = faults + n

Task(kind, rid, pos, sig, pc) ==
    [kind |-> kind, rid |-> rid, pos |-> pos, sig |-> sig, pc |-> pc,
     price |-> Undef, err |-> "none"]

Replace(old, new) == tasks' = (tasks \ {old}) \cup {new}

Finish(old) == tasks' = tasks \ {old}

(* ------------------- executeTrade, entry and exit --------------------- *)

\* how executeTrade ends: validation or the quote throws, the venue answers
\* success = false, savePosition throws (the store fails, or refuses the
\* record as PositionSchema does one without stopLoss), saveTrade throws, or
\* it returns
ExecuteOutcomes == {"quoteThrows", "venueFails", "saveThrows", "tradeThrows", "ok"}

\* the outcomes in which the venue has settled the trade
Settled == {"saveThrows", "tradeThrows", "ok"}

\* handleSuccessfulTrade: savePosition, activePositions.set, saveTrade,
\* positionOpened; it runs for every settled signal, entry or exit
handleSuccessfulTrade(signal, outcome) ==
    LET position == NewPosition(Len(db) + 1, signal)
    IN  /\ IF outcome = "saveThrows"
           THEN UNCHANGED store
           ELSE /\ db' = Append(db, position)
                /\ activePositions' =
                       [activePositions EXCEPT ![signal.tokenAddress] = position]
        /\ events' = IF outcome = "ok"
                     THEN Add(events, Event("positionOpened", position.id,
                                            position.tokenAddress, NoReason))
                     ELSE events

\* executeTrade(signal) up to its return or its catch
executeTrade(signal, outcome) ==
    /\ IF outcome \in Settled
       THEN handleSuccessfulTrade(signal, outcome)
       ELSE UNCHANGED <<store, events>>
    /\ UNCHANGED failedTrades

\* the error executeTrade catches
ErrorOf(outcome) ==
    IF outcome = "ok" THEN "none" ELSE IF outcome = "venueFails" THEN "venue" ELSE "internal"

\* the venue's book of settled exits after executeTrade
ExitsAfter(id, outcome) ==
    LET settled == IF id # 0 /\ outcome \in Settled THEN [exits EXCEPT ![id] = @ + 1]
                   ELSE exits
    IN  IF outcome \in Settled \ {"saveThrows"} THEN Append(settled, 0) ELSE settled

\* evaluateTradeOpportunity up to its first await: the capacity check
EvaluateTradeOpportunity(t, price, qty, entries) ==
    /\ entryCount < entries
    /\ entryCount' = entryCount + 1
    /\ IF ActiveCount >= maxPositions
       THEN UNCHANGED tasks
       ELSE tasks' = tasks \cup
                {Task("entry", entryCount + 1, NoPos, EntrySignal(t, price, qty), "evaluate")}
    /\ Fault(0)
    /\ UNCHANGED <<store, exits, logs, life, roundCount, startCount, stopCount>>

Min(a, b) == IF a <= b THEN a ELSE b

Max(a, b) == IF a >= b THEN a ELSE b

\* calculatePositionSize up to "Apply limits": balance * fraction * confidence,
\* then Math.min with the two upper limits.  Sizes are counted in 1/10000 SOL,
\* the product of a balance in SOL and two percentages.
CappedSize(s, confidence) ==
    Min(Min(s.balance * s.positionSizePercentage * confidence,
            maxPositionSizeSOL * 100 * 100),
        s.balance * s.maxPositionSizePercentage * 100)

\* calculatePositionSize: the capped size, then Math.max with the lower limit
calculatePositionSize(s, confidence) ==
    Max(CappedSize(s, confidence), minPositionSizeSOL * 100 * 100)

\* the tradingSignal event evaluateTradeOpportunity emits
TradingSignalEvent(t, positionSize, confidence) ==
    Event("tradingSignal", 0, t, [quantity |-> positionSize, confidence |-> confidence])

\* evaluateTradeOpportunity after the capacity check, up to the emit: the
\* confidence test, calculatePositionSize, the test for size 0
EvaluateSized(k, confidence) ==
    /\ k.kind = "entry" /\ k.pc = "evaluate"
    /\ LET positionSize == calculatePositionSize(sizing, confidence)
       IN  events' = IF confidence >= minConfidenceScore /\ positionSize # 0
                     THEN Add(events, TradingSignalEvent(k.sig.tokenAddress, positionSize,
                                                         confidence))
                     ELSE events
    /\ Finish(k)
    /\ Fault(0)
    /\ UNCHANGED <<store, exits, failedTrades, life, counts>>

\* evaluateToken or getBalance throws: evaluateTradeOpportunity rethrows
EvaluateSizedThrows(k) ==
    /\ k.kind = "entry" /\ k.pc = "evaluate"
    /\ Finish(k)
    /\ Fault(1)
    /\ UNCHANGED <<store, exits, logs, life, counts>>

\* evaluateTradeOpportunity after the capacity check: no signal is emitted
EvaluateNoSignal(k) ==
    /\ k.kind = "entry" /\ k.pc = "evaluate"
    /\ Finish(k)
    /\ Fault(0)
    /\ UNCHANGED <<store, exits, logs, life, counts>>

\* the tradingSignal is emitted and Aelio's listener runs executeTrade on it
EvaluateSignal(k, outcome) ==
    /\ k.kind = "entry" /\ k.pc = "evaluate"
    /\ executeTrade(k.sig, outcome)
    /\ exits' = ExitsAfter(0, outcome)
    /\ IF outcome = "ok"
       THEN Finish(k)
       ELSE Replace(k, [k EXCEPT !.pc = "failed", !.err = ErrorOf(outcome)])
    /\ Fault(IF outcome = "ok" THEN 0 ELSE 1)
    /\ UNCHANGED <<life, counts>>

\* the catch of closePosition: forced close on shutdown, rethrown otherwise (to
\* the boundary of the monitoring task)
CloseCatch(k) ==
    IF k.kind = "shutdown" THEN Replace(k, [k EXCEPT !.pc = "force"]) ELSE Finish(k)

\* executeTrade rethrows after handleFailedTrade
AfterFailed(k) ==
    IF k.kind = "entry" THEN Finish(k) ELSE CloseCatch(k)

\* the FailedTrade handleFailedTrade saves
FailedTradeRecord(signal, err) ==
    [tokenAddress |-> signal.tokenAddress, type |-> signal.type, error |-> err]

\* a handleFailedTrade that saves the FailedTrade and publishes nothing
handleFailedTradeSilent(signal, err) ==
    /\ failedTrades' = Add(failedTrades, FailedTradeRecord(signal, err))
    /\ events' = events

\* handleFailedTrade: saveFailedTrade, then tradeFailed
handleFailedTrade(signal, err) ==
    /\ failedTrades' = Add(failedTrades, FailedTradeRecord(signal, err))
    /\ events' = Add(events, Event("tradeFailed", 0, signal.tokenAddress, signal.type))

\* the catch of executeTrade: handleFailedTrade, then the error is rethrown
HandleFailedTrade(k) ==
    /\ k.pc = "failed"
    /\ handleFailedTrade(k.sig, k.err)
    /\ AfterFailed(k)
    /\ Fault(0)
    /\ UNCHANGED <<store, exits, life, counts>>

\* saveFailedTrade throws: handleFailedTrade logs it and publishes nothing
HandleFailedTradeThrows(k) ==
    /\ k.pc = "failed"
    /\ AfterFailed(k)
    /\ Fault(1)
    /\ UNCHANGED <<store, exits, logs, life, counts>>

(* ------------------------- monitoring rounds -------------------------- *)

\* a setInterval callback that does not look at isRunning
TimerFireAlways(rounds) ==
    /\ timers > 0
    /\ roundCount < rounds
    /\ roundCount' = roundCount + 1
    /\ tasks' = tasks \cup
            {Task("monitor", roundCount + 1, p, NoSig, "price") : p \in ActiveValues}
    /\ Fault(0)
    /\ UNCHANGED <<store, exits, logs, life, entryCount, startCount, stopCount>>

\* the setInterval callback: monitorPositions starts one task per position
\* of the index, whether or not an earlier round is still in flight
TimerFire(rounds) ==
    /\ timers > 0
    /\ isRunning
    /\ roundCount < rounds
    /\ roundCount' = roundCount + 1
    /\ tasks' = tasks \cup
            {Task("monitor", roundCount + 1, p, NoSig, "price") : p \in ActiveValues}
    /\ Fault(0)
    /\ UNCHANGED <<store, exits, logs, life, entryCount, startCount, stopCount>>

\* the setInterval callback in the rounds after the counted ones: the round
\* number stays at rounds; these rounds are taken one after the other
TimerFireAgain(rounds) ==
    /\ timers > 0
    /\ isRunning
    /\ roundCount = rounds
    /\ \A k \in tasks : k.kind # "monitor"
    /\ tasks' = tasks \cup
            {Task("monitor", rounds, p, NoSig, "price") : p \in ActiveValues}
    /\ Fault(0)
    /\ UNCHANGED <<store, exits, logs, life, counts>>

\* getTokenPrice throws: caught at the task boundary
MonitorPriceThrows(k) ==
    /\ k.kind = "monitor" /\ k.pc = "price"
    /\ Finish(k)
    /\ Fault(1)
    /\ UNCHANGED <<store, exits, logs, life, counts>>

\* newStopLoss of manageDynamicPositionLevels
TrailCandidate(currentPrice) == (currentPrice * (100 - trailStopDistance)) \div 100

\* pnlPercentage of manageDynamicPositionLevels
PnlPercentage(position, currentPrice) ==
    Percent(currentPrice - position.entryPrice, position.entryPrice)

\* whether manageDynamicPositionLevels raises the stop
TrailRaises(position, currentPrice) ==
    /\ Gt(PnlPercentage(position, currentPrice), trailStopActivationPercentage)
    /\ Gt(TrailCandidate(currentPrice), position.stopLoss)

\* a checkPositionStatus that tests the take-profit before the stop-loss
CheckTakeProfitFirst(k) ==
    IF Leq(k.pos.takeProfit, k.price)
    THEN [k EXCEPT !.pc = "close", !.sig = ExitSignal(k.pos, Undef, "takeProfit")]
    ELSE IF Leq(k.price, k.pos.stopLoss)
    THEN [k EXCEPT !.pc = "close", !.sig = ExitSignal(k.pos, Undef, "stopLoss")]
    ELSE IF TrailRaises(k.pos, k.price)
    THEN [k EXCEPT !.pc = "stop"]
    ELSE [k EXCEPT !.pc = "volatility"]

\* checkPositionStatus and the start of what it calls: the next await of the task
CheckPositionStatus(k) ==
    IF Leq(k.price, k.pos.stopLoss)
    THEN [k EXCEPT !.pc = "close", !.sig = ExitSignal(k.pos, Undef, "stopLoss")]
    ELSE IF Leq(k.pos.takeProfit, k.price)
    THEN [k EXCEPT !.pc = "close", !.sig = ExitSignal(k.pos, Undef, "takeProfit")]
    ELSE IF TrailRaises(k.pos, k.price)
    THEN [k EXCEPT !.pc = "stop"]
    ELSE [k EXCEPT !.pc = "volatility"]

\* a task that goes on to checkPositionStatus whether or not the store has
\* taken the refresh
MonitorPositionUnchecked(k, currentPrice, stored) ==
    /\ k.kind = "monitor" /\ k.pc = "price"
    /\ activePositions' = [activePositions EXCEPT
            ![k.pos.tokenAddress] = MetricsUpdate(k.pos, currentPrice)]
    /\ db' = IF stored
             THEN [db EXCEPT ![k.pos.id] = MergeUpdate(@, MetricsUpdate(k.pos, currentPrice))]
             ELSE db
    /\ Replace(k, CheckPositionStatus([k EXCEPT !.price = currentPrice]))
    /\ Fault(IF stored THEN 0 ELSE 1)
    /\ UNCHANGED <<exits, logs, life, counts>>

\* getTokenPrice returns; updatePositionMetrics sets the index and updates the
\* store; if the update does not throw, checkPositionStatus follows
MonitorPosition(k, currentPrice, stored) ==
    /\ k.kind = "monitor" /\ k.pc = "price"
    /\ activePositions' = [activePositions EXCEPT
            ![k.pos.tokenAddress] = MetricsUpdate(k.pos, currentPrice)]
    /\ IF stored
       THEN /\ db' = [db EXCEPT ![k.pos.id] = MergeUpdate(@, MetricsUpdate(k.pos, currentPrice))]
            /\ Replace(k, CheckPositionStatus([k EXCEPT !.price = currentPrice]))
       ELSE /\ UNCHANGED db
            /\ Finish(k)
    /\ Fault(IF stored THEN 0 ELSE 1)
    /\ UNCHANGED <<exits, logs, life, counts>>

\* the slot of a position with its levels replaced, written to the index and
\* to the store; nothing is written when the slot holds another position
SetLevels(position, stopLoss, takeProfit) ==
    LET slot == activePositions[position.tokenAddress]
        updated == [slot EXCEPT !.stopLoss = stopLoss, !.takeProfit = takeProfit]
    IN  IF slot.id = position.id
        THEN /\ activePositions' = [activePositions EXCEPT ![position.tokenAddress] = updated]
             /\ db' = [db EXCEPT ![position.id] = MergeUpdate(@, updated)]
        ELSE UNCHANGED store

updateStopLoss(position, newStopLoss) ==
    SetLevels(position, newStopLoss, activePositions[position.tokenAddress].takeProfit)

updateTakeProfit(position, newTakeProfit) ==
    SetLevels(position, activePositions[position.tokenAddress].stopLoss, newTakeProfit)

\* manageDynamicPositionLevels: the trailing stop is raised
MonitorStop(k) ==
    /\ k.kind = "monitor" /\ k.pc = "stop"
    /\ updateStopLoss(k.pos, TrailCandidate(k.price))
    /\ Replace(k, [k EXCEPT !.pc = "volatility"])
    /\ Fault(0)
    /\ UNCHANGED <<exits, logs, life, counts>>

MonitorStopThrows(k) ==
    /\ k.kind = "monitor" /\ k.pc = "stop"
    /\ Finish(k)
    /\ Fault(1)
    /\ UNCHANGED <<store, exits, logs, life, counts>>

\* manageDynamicPositionLevels: calculateVolatility, then the take-profit
MonitorVolatility(k, volatility) ==
    /\ k.kind = "monitor" /\ k.pc = "volatility"
    /\ IF volatility > volatilityThreshold
       THEN updateTakeProfit(k.pos, calculateDynamicTakeProfit(k.pos, volatility))
       ELSE UNCHANGED store
    /\ Finish(k)
    /\ Fault(0)
    /\ UNCHANGED <<exits, logs, life, counts>>

\* calculateVolatility or updateTakeProfit throws
MonitorVolatilityThrows(k) ==
    /\ k.kind = "monitor" /\ k.pc = "volatility"
    /\ Finish(k)
    /\ Fault(1)
    /\ UNCHANGED <<store, exits, logs, life, counts>>

(* ------------------------------ closing ------------------------------- *)

\* closePosition: getTokenPrice, the exit signal, executeTrade
ClosePosition(k, currentPrice, outcome) ==
    /\ k.kind \in {"monitor", "shutdown"} /\ k.pc = "close"
    /\ LET exitSignal == ExitSignal(k.pos, currentPrice, k.sig.reason)
       IN  /\ executeTrade(exitSignal, outcome)
           /\ Replace(k, [k EXCEPT !.sig = exitSignal,
                                   !.pc = IF outcome = "ok" THEN "settled" ELSE "failed",
                                   !.err = ErrorOf(outcome)])
    /\ exits' = ExitsAfter(k.pos.id, outcome)
    /\ Fault(IF outcome = "ok" THEN 0 ELSE 1)
    /\ UNCHANGED <<life, counts>>

\* closePosition: getTokenPrice throws
ClosePriceThrows(k) ==
    /\ k.kind \in {"monitor", "shutdown"} /\ k.pc = "close"
    /\ CloseCatch(k)
    /\ Fault(1)
    /\ UNCHANGED <<store, exits, logs, life, counts>>

\* how handleSuccessfulClose ends
CloseOutcomes == {"updateThrows", "tradeThrows", "ok"}

\* handleSuccessfulClose: updatePosition, saveTrade, activePositions.delete,
\* positionClosed
handleSuccessfulClose(position, exitSignal, reason, outcome) ==
    /\ db' = IF outcome = "updateThrows" THEN db
             ELSE [db EXCEPT ![position.id] =
                       MergeUpdate(@, ClosedPosition(position, exitSignal, reason))]
    /\ IF outcome = "ok"
       THEN /\ activePositions' = [activePositions EXCEPT ![position.tokenAddress] = NoPos]
            /\ events' = Add(events, Event("positionClosed", position.id,
                                           position.tokenAddress, reason))
       ELSE UNCHANGED <<activePositions, events>>

\* closePosition after executeTrade returned success
CloseSettled(k, outcome) ==
    /\ k.pc = "settled"
    /\ handleSuccessfulClose(k.pos, k.sig, k.sig.reason, outcome)
    /\ IF outcome = "ok" THEN Finish(k) ELSE CloseCatch(k)
    /\ Fault(IF outcome = "ok" THEN 0 ELSE 1)
    /\ UNCHANGED <<exits, failedTrades, life, counts>>

\* forceClosePosition: updatePosition, activePositions.delete, positionForceClosed
forceClosePosition(position) ==
    /\ db' = [db EXCEPT ![position.id] = MergeUpdate(@, ForceClosedPosition(position))]
    /\ activePositions' = [activePositions EXCEPT ![position.tokenAddress] = NoPos]
    /\ events' = Add(events, Event("positionForceClosed", position.id,
                                   position.tokenAddress, NoReason))

\* forceClosePosition, from closePosition's catch or from closeAllPositions' catch
ForceClose(k) ==
    /\ k.pc \in {"force", "forceAgain"}
    /\ forceClosePosition(k.pos)
    /\ Finish(k)
    /\ Fault(0)
    /\ UNCHANGED <<exits, failedTrades, life, counts>>

\* forceClosePosition throws: closeAllPositions tries once more, then gives up
ForceCloseThrows(k) ==
    /\ k.pc \in {"force", "forceAgain"}
    /\ IF k.pc = "force" THEN Replace(k, [k EXCEPT !.pc = "forceAgain"]) ELSE Finish(k)
    /\ Fault(1)
    /\ UNCHANGED <<store, exits, logs, life, counts>>

(* --------------------------- stop and start --------------------------- *)

\* closeAllPositions: one closePosition(position, 'shutdown') per position
closeAllPositions(rid) ==
    {Task("shutdown", rid, p, ExitSignal(p, Undef, "shutdown"), "close") : p \in ActiveValues}

\* a closeAllPositions that does not wait for its close tasks
ShutdownNotAwaited(c) == TRUE

\* Promise.allSettled(closePromises) of stop() call c has resolved
ShutdownSettled(c) == \A k \in tasks : ~(k.kind = "shutdown" /\ k.rid = c)

\* Aelio.stop -> TradingEngine.stop, up to the await on closeAllPositions; an
\* earlier call that is still closing does not hold this one back
Stop(stops) ==
    /\ aelioRunning
    /\ stopCount < stops
    /\ stopCount' = stopCount + 1
    /\ isRunning' = FALSE
    /\ IF closePositionsOnShutdown
       THEN /\ tasks' = tasks \cup closeAllPositions(stopCount + 1)
            /\ shutdownIds' = shutdownIds \cup {p.id : p \in ActiveValues}
            /\ stopPc' = Append(stopPc, "closing")
            /\ UNCHANGED aelioRunning
       ELSE /\ stopPc' = Append(stopPc, "done")
            /\ aelioRunning' = FALSE
            /\ UNCHANGED <<tasks, shutdownIds>>
    /\ Fault(0)
    /\ UNCHANGED <<store, exits, logs, timers, closePositionsOnShutdown, sizing, now, database, startPc,
                   entryCount, roundCount, startCount>>

\* closeAllPositions returns, stop() returns, Aelio.stop completes
StopJoin(c) ==
    /\ stopPc[c] = "closing"
    /\ ShutdownSettled(c)
    /\ stopPc' = [stopPc EXCEPT ![c] = "done"]
    /\ aelioRunning' = FALSE
    /\ Fault(0)
    /\ UNCHANGED <<isRunning, store, exits, logs, tasks, timers, closePositionsOnShutdown,
                   sizing, now, database,
                   startPc, shutdownIds, counts>>

\* Aelio.stop with nothing to close: TradingEngine.stop returns, then
\* dbService.disconnect throws and Aelio.isRunning is left as it is
StopThrows(stops) ==
    /\ aelioRunning
    /\ stopCount < stops
    /\ ~closePositionsOnShutdown
    /\ stopCount' = stopCount + 1
    /\ isRunning' = FALSE
    /\ stopPc' = Append(stopPc, "done")
    /\ Fault(1)
    /\ UNCHANGED <<store, exits, logs, tasks, timers, closePositionsOnShutdown, sizing, now, database,
                   aelioRunning, startPc, shutdownIds, entryCount, roundCount, startCount>>

\* closeAllPositions returns, TradingEngine.stop returns, then
\* dbService.disconnect throws and Aelio.isRunning is left as it is
StopJoinThrows(c) ==
    /\ stopPc[c] = "closing"
    /\ ShutdownSettled(c)
    /\ stopPc' = [stopPc EXCEPT ![c] = "done"]
    /\ Fault(1)
    /\ UNCHANGED <<isRunning, store, exits, logs, tasks, timers, closePositionsOnShutdown,
                   sizing, now, database, aelioRunning, startPc, shutdownIds, counts>>

\* Aelio.start -> TradingEngine.start, up to the await on loadActivePositions;
\* a call made while an earlier one is loading finds the engine running and
\* returns.  One load is in flight at a time.
Start(starts) ==
    /\ ~aelioRunning
    /\ isRunning \/ startPc = "idle"
    /\ startCount < starts
    /\ startCount' = startCount + 1
    /\ IF isRunning
       THEN aelioRunning' = TRUE /\ UNCHANGED <<isRunning, startPc>>
       ELSE isRunning' = TRUE /\ startPc' = "loading" /\ UNCHANGED aelioRunning
    /\ Fault(0)
    /\ UNCHANGED <<store, exits, logs, tasks, timers, closePositionsOnShutdown, sizing, now, database, stopPc,
                   shutdownIds, entryCount, roundCount, stopCount>>

\* adjustPositionLevels: both levels are set again from the current price
adjustPositionLevels(position, currentPrice) ==
    [position EXCEPT !.stopLoss = calculateStopLoss(currentPrice),
                     !.takeProfit = calculateTakeProfit(currentPrice)]

\* validatePosition: the position as the index and the store hold it afterwards
validatePosition(position, currentPrice, stale) ==
    LET fresh == IF stale THEN MetricsUpdate(position, currentPrice) ELSE position
    IN  IF Gt(position.stopLoss, currentPrice) \/ Gt(currentPrice, position.takeProfit)
        THEN adjustPositionLevels(fresh, currentPrice)
        ELSE fresh

\* the instruments of the positions getActivePositions returns
LoadedTokens == {db[i].tokenAddress : i \in {j \in 1..Len(db) : db[j].status = "active"}}

\* loadActivePositions: index and store after the positions with ids from i on
\* have been set and validated, one after the other; the position with id
\* failAt is set, its validation throws and ends the loop
RECURSIVE LoadFrom(_, _, _, _, _, _)
LoadFrom(i, index, positions, priceOf, staleOf, failAt) ==
    IF i > Len(positions) THEN <<index, positions>>
    ELSE IF positions[i].status # "active"
    THEN LoadFrom(i + 1, index, positions, priceOf, staleOf, failAt)
    ELSE LET position == positions[i]
             t == position.tokenAddress
             valid == validatePosition(position, priceOf[t], staleOf[t])
         IN  IF i = failAt
             THEN <<[index EXCEPT ![t] = position], positions>>
             ELSE LoadFrom(i + 1,
                           [index EXCEPT ![t] = valid],
                           [positions EXCEPT ![i] = MergeUpdate(@, valid)],
                           priceOf, staleOf, failAt)

\* start() completes: positions loaded and validated, the timer is set
StartLoaded(priceOf, staleOf) ==
    /\ startPc = "loading"
    /\ LET loaded == LoadFrom(1, activePositions, db, priceOf, staleOf, 0)
       IN  activePositions' = loaded[1] /\ db' = loaded[2]
    /\ timers' = timers + 1
    /\ startPc' = "idle"
    /\ aelioRunning' = TRUE
    /\ Fault(0)
    /\ UNCHANGED <<isRunning, exits, logs, tasks, closePositionsOnShutdown, sizing, now, database, stopPc,
                   shutdownIds, counts>>

\* loadActivePositions throws, in getActivePositions (failAt = 0) or in the
\* validation of the position with id failAt: start() resets isRunning and
\* rethrows
StartThrows(priceOf, staleOf, failAt) ==
    /\ startPc = "loading"
    /\ IF failAt = 0 THEN TRUE ELSE db[failAt].status = "active"
    /\ LET loaded == IF failAt = 0 THEN <<activePositions, db>>
                     ELSE LoadFrom(1, activePositions, db, priceOf, staleOf, failAt)
       IN  activePositions' = loaded[1] /\ db' = loaded[2]
    /\ isRunning' = FALSE
    /\ startPc' = "idle"
    /\ Fault(1)
    /\ UNCHANGED <<exits, logs, tasks, timers, closePositionsOnShutdown, sizing, now, database,
                   aelioRunning, stopPc, shutdownIds, counts>>

(* -------------------------- DatabaseService --------------------------- *)

\* what the database actions leave alone
engine == <<isRunning, activePositions, db, exits, failedTrades, events, tasks, timers,
            closePositionsOnShutdown, sizing, now, aelioRunning, startPc, stopPc, shutdownIds,
            entryCount, roundCount, startCount, stopCount>>

\* connect() up to its await on mongoose.connect; a call on a connected
\* service returns at once
connect(connects) ==
    /\ connectCount < connects
    /\ ~isConnected
    /\ connectCount' = connectCount + 1
    /\ connecting' = connecting + 1
    /\ Fault(0)
    /\ UNCHANGED <<engine, isConnected, link, reconnecting, retryTimers, disconnectPc, dropCount>>

\* mongoose.connect resolves: isConnected = true
ConnectResolves ==
    /\ connecting > 0
    /\ connecting' = connecting - 1
    /\ link' = "open"
    /\ isConnected' = TRUE
    /\ Fault(0)
    /\ UNCHANGED <<engine, reconnecting, retryTimers, disconnectPc, connectCount, dropCount>>

\* mongoose.connect rejects: connect() rethrows to its caller
ConnectRejects ==
    /\ connecting > 0
    /\ connecting' = connecting - 1
    /\ Fault(1)
    /\ UNCHANGED <<engine, isConnected, link, reconnecting, retryTimers, disconnectPc,
                   connectCount, dropCount>>

\* handleDisconnection: isConnected = false, then attemptReconnection, whose
\* connect() finds the flag false and awaits mongoose.connect
handleDisconnection ==
    /\ isConnected' = FALSE
    /\ reconnecting' = reconnecting + 1

\* the connection is lost: mongoose emits 'disconnected'
LinkDrops(drops) ==
    /\ link = "open"
    /\ dropCount < drops
    /\ dropCount' = dropCount + 1
    /\ link' = "closed"
    /\ handleDisconnection
    /\ Fault(0)
    /\ UNCHANGED <<engine, connecting, retryTimers, disconnectPc, connectCount>>

\* handleConnectionError: mongoose emits 'error'
handleConnectionError ==
    /\ link = "open"
    /\ isConnected' = FALSE
    /\ Fault(1)
    /\ UNCHANGED <<engine, link, connecting, reconnecting, retryTimers, disconnectPc,
                   connectCount, dropCount>>

\* disconnect() up to its await on mongoose.disconnect; a call on a service
\* that is not connected returns at once
disconnect(disconnects) ==
    /\ Len(disconnectPc) < disconnects
    /\ isConnected
    /\ disconnectPc' = Append(disconnectPc, "closing")
    /\ Fault(0)
    /\ UNCHANGED <<engine, isConnected, link, connecting, reconnecting, retryTimers,
                   connectCount, dropCount>>

\* mongoose.disconnect closes the connection; mongoose emits 'disconnected'
\* for it as for a lost connection
MongooseCloses(c) ==
    /\ disconnectPc[c] = "closing"
    /\ disconnectPc' = [disconnectPc EXCEPT ![c] = "closed"]
    /\ link' = "closed"
    /\ IF link = "open" THEN handleDisconnection ELSE UNCHANGED <<isConnected, reconnecting>>
    /\ Fault(0)
    /\ UNCHANGED <<engine, connecting, retryTimers, connectCount, dropCount>>

\* mongoose.disconnect resolves: isConnected = false
DisconnectResolves(c) ==
    /\ disconnectPc[c] = "closed"
    /\ disconnectPc' = [disconnectPc EXCEPT ![c] = "done"]
    /\ isConnected' = FALSE
    /\ Fault(0)
    /\ UNCHANGED <<engine, link, connecting, reconnecting, retryTimers, connectCount, dropCount>>

\* mongoose.disconnect rejects: disconnect() rethrows
DisconnectRejects(c) ==
    /\ disconnectPc[c] = "closing"
    /\ disconnectPc' = [disconnectPc EXCEPT ![c] = "failed"]
    /\ Fault(1)
    /\ UNCHANGED <<engine, isConnected, link, connecting, reconnecting, retryTimers,
                   connectCount, dropCount>>

\* attemptReconnection: its connect() resolves
ReconnectResolves ==
    /\ reconnecting > 0
    /\ reconnecting' = reconnecting - 1
    /\ link' = "open"
    /\ isConnected' = TRUE
    /\ Fault(0)
    /\ UNCHANGED <<engine, connecting, retryTimers, disconnectPc, connectCount, dropCount>>

\* attemptReconnection: its connect() throws, the catch sets the timer
ReconnectRejects ==
    /\ reconnecting > 0
    /\ reconnecting' = reconnecting - 1
    /\ retryTimers' = retryTimers + 1
    /\ Fault(1)
    /\ UNCHANGED <<engine, isConnected, link, connecting, disconnectPc, connectCount, dropCount>>

\* the timer fires after reconnectInterval: attemptReconnection again; its
\* connect() returns at once when the service is connected
attemptReconnection ==
    /\ retryTimers > 0
    /\ retryTimers' = retryTimers - 1
    /\ reconnecting' = IF isConnected THEN reconnecting ELSE reconnecting + 1
    /\ Fault(0)
    /\ UNCHANGED <<engine, isConnected, link, connecting, disconnectPc, connectCount, dropCount>>

(* --------------------------- specifications --------------------------- *)

\* a step of a task of the entry path
EntryStep ==
    \/ \E k \in tasks : EvaluateNoSignal(k)
    \/ \E k \in tasks, o \in ExecuteOutcomes : EvaluateSignal(k, o)
    \/ \E k \in tasks : HandleFailedTrade(k)
    \/ \E k \in tasks : HandleFailedTradeThrows(k)

\* a step of a task of a monitoring round, up to the exit decision, with the
\* feed returning one of prices
MonitorStepAt(prices) ==
    \/ \E k \in tasks : MonitorPriceThrows(k)
    \/ \E k \in tasks, p \in prices, stored \in BOOLEAN : MonitorPosition(k, p, stored)
    \/ \E k \in tasks : MonitorStop(k)
    \/ \E k \in tasks : MonitorStopThrows(k)
    \/ \E k \in tasks, v \in Volatilities : MonitorVolatility(k, v)
    \/ \E k \in tasks : MonitorVolatilityThrows(k)

\* the same, with the feed returning one of prices and calculateVolatility
\* one of volatilities
MonitorStepWith(prices, volatilities) ==
    \/ \E k \in tasks : MonitorPriceThrows(k)
    \/ \E k \in tasks, p \in prices, stored \in BOOLEAN : MonitorPosition(k, p, stored)
    \/ \E k \in tasks : MonitorStop(k)
    \/ \E k \in tasks : MonitorStopThrows(k)
    \/ \E k \in tasks, v \in volatilities : MonitorVolatility(k, v)
    \/ \E k \in tasks : MonitorVolatilityThrows(k)

MonitorStep == MonitorStepAt(Prices)

\* a step of closePosition
CloseStep ==
    \/ \E k \in tasks, p \in Prices, o \in ExecuteOutcomes : ClosePosition(k, p, o)
    \/ \E k \in tasks : ClosePriceThrows(k)
    \/ \E k \in tasks, o \in CloseOutcomes : CloseSettled(k, o)

\* a step of forceClosePosition
ForceStep ==
    \/ \E k \in tasks : ForceClose(k)
    \/ \E k \in tasks : ForceCloseThrows(k)

\* start() of the orchestrator, called at most starts times
StartStep(starts) ==
    \/ Start(starts)
    \/ \E priceOf \in [LoadedTokens -> Prices], staleOf \in [LoadedTokens -> BOOLEAN] :
           StartLoaded(priceOf, staleOf)
    \/ \E priceOf \in [LoadedTokens -> Prices], staleOf \in [LoadedTokens -> BOOLEAN],
          failAt \in 0..Len(db) : StartThrows(priceOf, staleOf, failAt)

\* stop() of the orchestrator, called at most stops times
StopStep(stops) ==
    \/ Stop(stops)
    \/ StopThrows(stops)
    \/ \E c \in 1..Len(stopPc) : StopJoin(c)
    \/ \E c \in 1..Len(stopPc) : StopJoinThrows(c)

\* one instrument is discovered, and monitored in rounds that may overlap
Next ==
    \/ \E t \in {"T1"}, p \in EntryPrices, q \in Quantities :
           EvaluateTradeOpportunity(t, p, q, MaxEntries)
    \/ TimerFire(MaxRounds)
    \/ EntryStep
    \/ MonitorStep
    \/ CloseStep
    \/ StartStep(MaxStarts)

Spec == Init /\ [][Next]_vars

\* one instrument is discovered and monitored, and the engine is stopped
NextStop ==
    \/ \E t \in {"T1"}, p \in EntryPrices, q \in Quantities :
           EvaluateTradeOpportunity(t, p, q, MaxEntries)
    \/ TimerFire(StopRounds)
    \/ EntryStep
    \/ MonitorStep
    \/ CloseStep
    \/ ForceStep
    \/ StartStep(MaxStarts)
    \/ StopStep(MonitoredStops)

SpecStop == InitAnyConfig /\ [][NextStop]_vars

\* one instrument is discovered; the engine is started, and stopped before the
\* first round is due, by stop() calls that may overlap
NextShutdown ==
    \/ \E t \in {"T1"}, p \in EntryPrices, q \in Quantities :
           EvaluateTradeOpportunity(t, p, q, MaxEntries)
    \/ EntryStep
    \/ CloseStep
    \/ ForceStep
    \/ StartStep(MaxStarts)
    \/ StopStep(MaxStops)

SpecShutdown == InitAnyConfig /\ [][NextShutdown]_vars

\* the entry path alone, on every instrument
NextAdmit ==
    \/ \E t \in Tokens, p \in EntryPrices, q \in Quantities :
           EvaluateTradeOpportunity(t, p, q, AdmitEntries)
    \/ EntryStep

SpecAdmit == Init /\ [][NextAdmit]_vars

\* one instrument is discovered, once or twice, and the engine is started by
\* start() calls that may overlap, before the first round is due
NextStart ==
    \/ \E t \in {"T1"}, p \in EntryPrices, q \in Quantities :
           EvaluateTradeOpportunity(t, p, q, StartEntries)
    \/ EntryStep
    \/ StartStep(OverlapStarts)

SpecStart == Init /\ [][NextStart]_vars

\* the entry path alone, on every instrument and at any price
NextLevels ==
    \/ \E t \in Tokens, p \in AnyEntryPrices, q \in Quantities :
           EvaluateTradeOpportunity(t, p, q, LevelEntries)
    \/ EntryStep

SpecLevels == Init /\ [][NextLevels]_vars

\* one instrument is discovered at any price and monitored for one round at
\* any price
NextDecide ==
    \/ \E t \in {"T1"}, p \in AnyEntryPrices, q \in Quantities :
           EvaluateTradeOpportunity(t, p, q, MaxEntries)
    \/ TimerFire(StopRounds)
    \/ EntryStep
    \/ MonitorStepAt(AnyPrices)
    \/ CloseStep
    \/ StartStep(MaxStarts)

SpecDecide == Init /\ [][NextDecide]_vars

\* one instrument is discovered; the engine is started, stopped and started
\* again, before the first round is due
NextRestart ==
    \/ \E t \in {"T1"}, p \in EntryPrices, q \in Quantities :
           EvaluateTradeOpportunity(t, p, q, MaxEntries)
    \/ EntryStep
    \/ CloseStep
    \/ ForceStep
    \/ StartStep(OverlapStarts)
    \/ StopStep(MonitoredStops)

SpecRestart == InitAnyConfig /\ [][NextRestart]_vars

\* one instrument is discovered and monitored through a rally, in rounds
\* that may overlap
NextRally ==
    \/ \E t \in {"T1"}, p \in EntryPrices, q \in Quantities :
           EvaluateTradeOpportunity(t, p, q, MaxEntries)
    \/ TimerFire(MaxRounds)
    \/ EntryStep
    \/ MonitorStepWith(RallyPrices, RallyVolatilities)
    \/ StartStep(MaxStarts)

SpecRally == Init /\ [][NextRally]_vars

\* one instrument is discovered and monitored round after round, without
\* end; every collaborator fails at most MaxFaults times in all
TimerStep == TimerFire(LiveRounds) \/ TimerFireAgain(LiveRounds)

NextLive ==
    \/ \E t \in {"T1"}, p \in EntryPrices, q \in Quantities :
           EvaluateTradeOpportunity(t, p, q, MaxEntries)
    \/ TimerStep
    \/ EntryStep
    \/ MonitorStep
    \/ CloseStep
    \/ StartStep(MaxStarts)

\* the timer keeps firing while it is live, and every continuation of a task
\* that can run does run
FairLive ==
    /\ WF_vars(TimerStep)
    /\ WF_vars(EntryStep)
    /\ WF_vars(MonitorStep)
    /\ WF_vars(CloseStep)

SpecLive == Init /\ [][NextLive]_vars /\ FairLive

\* the DatabaseService alone: connected, disconnected, its connection lost
NextDatabase ==
    \/ connect(MaxConnects)
    \/ ConnectResolves
    \/ ConnectRejects
    \/ LinkDrops(MaxDrops)
    \/ handleConnectionError
    \/ disconnect(MaxDisconnects)
    \/ \E c \in 1..Len(disconnectPc) : MongooseCloses(c)
    \/ \E c \in 1..Len(disconnectPc) : DisconnectResolves(c)
    \/ \E c \in 1..Len(disconnectPc) : DisconnectRejects(c)
    \/ ReconnectResolves
    \/ ReconnectRejects
    \/ attemptReconnection

SpecDatabase == Init /\ [][NextDatabase]_vars

\* the millisecond clock advances
Tick ==
    /\ now < MaxClock
    /\ now' = now + 1
    /\ UNCHANGED <<isRunning, timers, closePositionsOnShutdown, sizing, database, aelioRunning,
                   startPc, stopPc, shutdownIds, store, exits, logs, tasks, counts, faults>>

\* one instrument is discovered and monitored in rounds that may overlap,
\* while the clock runs
NextClock ==
    \/ \E t \in {"T1"}, p \in EntryPrices, q \in Quantities :
           EvaluateTradeOpportunity(t, p, q, MaxEntries)
    \/ TimerFire(MaxRounds)
    \/ EntryStep
    \/ MonitorStep
    \/ StartStep(MaxStarts)
    \/ Tick

SpecClock == Init /\ [][NextClock]_vars

\* the sizing of entries, for every wallet and every pair of fractions
InitSize == InitOf({FALSE}, Sizings)

NextSize ==
    \/ \E t \in Tokens, p \in EntryPrices, q \in Quantities :
           EvaluateTradeOpportunity(t, p, q, SizeEntries)
    \/ \E k \in tasks, c \in Confidences : EvaluateSized(k, c)
    \/ \E k \in tasks : EvaluateSizedThrows(k)

SpecSize == InitSize /\ [][NextSize]_vars

(* ------------------------------- claims ------------------------------- *)

Terminal == {"closed", "force_closed"}

\* the index holds the position with id i
IndexedIn(index, i) == \E t \in Tokens : index[t].id = i

Indexed(i) == IndexedIn(activePositions, i)

\* a task that is inside closePosition or forceClosePosition
Closing(k) ==
    \/ k.pc \in {"close", "settled", "force", "forceAgain"}
    \/ k.pc = "failed" /\ k.kind # "entry"

\* a task of a monitoring round whose exit the venue has refused
VenueFailedExit(k) ==
    k.kind = "monitor" /\ k.pc = "failed" /\ k.err = "venue" /\ k.sig.type = "exit"

TradeFailedEvent(signal) == Event("tradeFailed", 0, signal.tokenAddress, signal.type)

OneActivePerInstrument ==
    \A i, j \in 1..Len(db) :
        (/\ db[i].status = "active"
         /\ db[j].status = "active"
         /\ db[i].tokenAddress = db[j].tokenAddress) => i = j

OneRoundAtATime ==
    Cardinality({k.rid : k \in {j \in tasks : j.kind = "monitor"}}) <= 1

\* C5: the stored stopLoss of a position does not decrease from one step to
\* the next while the position is stored as active.
StopLossNeverLowered ==
    [][\A i \in 1..Len(db) :
           db[i].status = "active" /\ db'[i].status = "active" =>
               db'[i].stopLoss >= db[i].stopLoss]_vars

\* C6: the index never holds more than maxPositions positions.
CeilingRespected == ActiveCount <= maxPositions

\* C7: a position whose exit the venue has settled is, once no task works on
\* it any more, stored as closed with realizedPnL = (exitPrice - entryPrice) *
\* quantity and the exit's reason, is out of the index, and positionClosed
\* has been published for it.
SettledExitCloses ==
    \A i \in 1..Len(db) :
        (exits[i] > 0 /\ \A k \in tasks : k.pos.id # i) =>
            /\ db[i].status = "closed"
            /\ db[i].realizedPnL = (db[i].exitPrice - db[i].entryPrice) * db[i].quantity
            /\ db[i].closeReason \in {"stopLoss", "takeProfit"}
            /\ ~Indexed(i)
            /\ \E r \in {"stopLoss", "takeProfit"} :
                   Count(events, Event("positionClosed", i, db[i].tokenAddress, r)) > 0

LiquidationLeavesNoneActive ==
    (/\ closePositionsOnShutdown
     /\ Len(stopPc) > 0
     /\ \A c \in 1..Len(stopPc) : stopPc[c] = "done") =>
        \A i \in shutdownIds : db[i].status \in Terminal /\ ~Indexed(i)

FailedEntry(k) == k.kind = "entry" /\ k.pc = "failed"

\* C11: when the entry of a task fails (executeTrade throws), the failing
\* step leaves the index and the store as they were, so no position has been
\* created, and the step in which the task then ends saves a FailedTrade and
\* publishes tradeFailed.
FailedEntryCreatesNothing ==
    [][/\ \A k \in tasks' \ tasks : FailedEntry(k) => store' = store
       /\ \A k \in tasks \ tasks' :
              FailedEntry(k) =>
                  /\ Count(failedTrades', FailedTradeRecord(k.sig, k.err))
                         = Count(failedTrades, FailedTradeRecord(k.sig, k.err)) + 1
                  /\ Count(events', TradeFailedEvent(k.sig))
                         = Count(events, TradeFailedEvent(k.sig)) + 1]_vars

\* C12: every position in the index has had positionOpened published for it,
\* and is stored as active.
RegisteredMeansPublished ==
    \A t \in Tokens :
        activePositions[t].id # 0 =>
            /\ Count(events, Event("positionOpened", activePositions[t].id, t, NoReason)) > 0
            /\ db[activePositions[t].id].status = "active"

\* a task of a monitoring round fails in this step: a call it awaits throws
MonitorFails(k) == k.kind = "monitor" /\ k \notin tasks' /\ faults' > faults

RaisedStop(k) ==
    k.kind = "monitor" /\ k.pc = "volatility" /\ TrailRaises(k.pos, k.price)

\* C14: one evaluation of a position does one thing.  A task that has exited
\* its position goes on to no adjustment, and a task that has raised the
\* stopLoss of its position changes no level of it afterwards: the step in
\* which it ends leaves the index and the store as they are.
OneOutcomePerEvaluation ==
    [][\A k \in tasks \ tasks' :
           /\ RaisedStop(k) => store' = store
           /\ (k.kind = "monitor" /\ Closing(k)) =>
                  \A j \in tasks' \ tasks : j.pc \notin {"stop", "volatility"}]_vars

\* the next step of a task of a monitoring round when nothing it awaits throws
RunsOn(k) ==
    \E p \in Prices, v \in Volatilities :
        \/ MonitorPosition(k, p, TRUE)
        \/ MonitorStop(k)
        \/ MonitorVolatility(k, v)
        \/ ClosePosition(k, p, "ok")
        \/ CloseSettled(k, "ok")
        \/ HandleFailedTrade(k)

\* C15: a monitoring round is started only while the engine is running; a
\* stop() call stops the engine and neither it nor its completion removes or
\* changes a task of a round in flight; only a start() makes the engine run
\* again; and whether or not the engine runs, every task of a round in
\* flight can take its next step.
NoRoundAfterStop ==
    /\ [][/\ roundCount' # roundCount => isRunning
          /\ stopCount' # stopCount => ~isRunning'
          /\ stopPc' # stopPc => \A k \in tasks : k.kind = "monitor" => k \in tasks'
          /\ (~isRunning /\ isRunning') => startCount' # startCount]_vars
    /\ [](\A k \in tasks : k.kind = "monitor" => ENABLED RunsOn(k))

\* C15, its case: stop() has been called while a task of a monitoring round
\* is in flight on a position that is still stored as active
StoppedWithRoundInFlight ==
    /\ stopCount > 0
    /\ ~isRunning
    /\ timers > 0
    /\ \E k \in tasks : k.kind = "monitor" /\ k.pc = "price" /\ db[k.pos.id].status = "active"

\* C16: the writes to one instrument's slot are sequential: when a task of a
\* monitoring round writes the refreshed position to the index and the
\* store, the snapshot it has refreshed is the position the index holds, so
\* no other task has written to the slot since the snapshot was taken.
SnapshotsAreCurrent ==
    [][\A k \in tasks \ tasks' :
           (k.kind = "monitor" /\ k.pc = "price" /\ store' # store) =>
               activePositions[k.pos.tokenAddress] = k.pos]_vars

\* unrealizedPnL of a position is what its currentPrice makes it
PnlConsistent(position) ==
    position.unrealizedPnL
        = (position.currentPrice - position.entryPrice) * position.quantity

\* C17: every position in the index, and every record stored as active, has
\* unrealizedPnL = (currentPrice - entryPrice) * quantity.
PnlMatchesPrice ==
    /\ \A t \in Tokens : activePositions[t].id # 0 => PnlConsistent(activePositions[t])
    /\ \A i \in 1..Len(db) : db[i].status = "active" => PnlConsistent(db[i])

\* C17, its case: a task of a monitoring round has refreshed its position at
\* a price other than the entry price and other than the price of its
\* snapshot, and the index and the store hold the refreshed position
RefreshedAwayFromEntry ==
    \E k \in tasks :
        /\ k.kind = "monitor" /\ k.pc \in {"stop", "volatility"}
        /\ k.price # k.pos.currentPrice
        /\ k.price # k.pos.entryPrice
        /\ activePositions[k.pos.tokenAddress] = MetricsUpdate(k.pos, k.price)
        /\ db[k.pos.id] = MetricsUpdate(k.pos, k.price)
        /\ db[k.pos.id].unrealizedPnL # 0

\* C18: every tradingSignal that has been emitted was sized, before the lower
\* limit was applied, at minPositionSizeSOL or more: a size below the minimum
\* emits no signal.
SmallSizeSuppressesTrade ==
    \A e \in events :
        e[1].topic = "tradingSignal" =>
            CappedSize(sizing, e[1].detail.confidence) >= minPositionSizeSOL * 100 * 100

\* start() fails in this step: loadActivePositions throws
StartFails == startPc = "loading" /\ startPc' = "idle" /\ faults' > faults

\* C19: when start() fails, neither the engine nor the orchestrator reports
\* itself as running after the failing step, and no timer has been started
\* by it.
FailedStartLeavesStopped ==
    [][StartFails => ~isRunning' /\ ~aelioRunning' /\ timers' = timers]_vars

\* start() completes in this step: every position is loaded and validated
StartSucceeds == startPc = "loading" /\ startPc' = "idle" /\ faults' = faults

\* C20: when start() completes, every record the store holds as active is in
\* the index, as the store holds it after its validation.
LoadedIsComplete ==
    [][StartSucceeds =>
           \A i \in 1..Len(db') :
               db'[i].status = "active" =>
                   activePositions'[db'[i].tokenAddress] = db'[i]]_vars

\* C21: every record an entry stores has stopLoss < entryPrice < takeProfit
\* when it is stored.
CreatedWithinLevels ==
    [][\A i \in (Len(db) + 1)..Len(db') :
           db'[i].stopLoss < db'[i].entryPrice /\ db'[i].entryPrice < db'[i].takeProfit]_vars

\* a task of a monitoring round whose position has been refreshed in this
\* step, and the task as it goes on
Evaluated(k, j) ==
    /\ k \in tasks \ tasks' /\ k.kind = "monitor" /\ k.pc = "price"
    /\ j \in tasks' \ tasks

\* j has decided to exit its position for reason
Exits(j, reason) == j.pc = "close" /\ j.sig.type = "exit" /\ j.sig.reason = reason

StopReached(k, price) == k.pos.stopLoss # Undef /\ price <= k.pos.stopLoss

TargetReached(k, price) == k.pos.takeProfit # Undef /\ price >= k.pos.takeProfit

\* C22: an evaluation exits with reason stopLoss when the price is at or
\* below the stopLoss, whether or not it is also at or above the takeProfit;
\* otherwise it exits with reason takeProfit when the price is at or above
\* the takeProfit; otherwise it does not exit.  The step that decides an exit
\* leaves both levels of the position as they were, and a task that has
\* decided an exit never goes on to an adjustment.
ExitPriority ==
    [][/\ \A k \in tasks, j \in tasks' :
              Evaluated(k, j) =>
                  /\ StopReached(k, j.price) => Exits(j, "stopLoss")
                  /\ (~StopReached(k, j.price) /\ TargetReached(k, j.price)) =>
                         Exits(j, "takeProfit")
                  /\ (~StopReached(k, j.price) /\ ~TargetReached(k, j.price)) =>
                         j.pc \in {"stop", "volatility"}
                  /\ j.pc = "close" =>
                         /\ activePositions'[k.pos.tokenAddress].stopLoss = k.pos.stopLoss
                         /\ activePositions'[k.pos.tokenAddress].takeProfit = k.pos.takeProfit
       /\ \A k \in tasks \ tasks' :
              (k.kind = "monitor" /\ Closing(k)) =>
                  \A j \in tasks' \ tasks : j.pc \notin {"stop", "volatility"}]_vars

\* C22, its case: a task has decided an exit for reason stopLoss at a price
\* that is at or below the stopLoss and at or above the takeProfit
BothReachedExitsOnStop ==
    \E k \in tasks :
        /\ k.kind = "monitor" /\ k.pc = "close" /\ k.sig.reason = "stopLoss"
        /\ k.pos.stopLoss # Undef /\ k.price <= k.pos.stopLoss
        /\ k.pos.takeProfit # Undef /\ k.price >= k.pos.takeProfit

\* C23: a step of a task of a monitoring round changes the stored stopLoss of
\* its position only when the task raises the trailing stop: pnlPercentage
\* is above the activation threshold, and the candidate, currentPrice *
\* (1 - trailStopDistance), is stored and is greater than the stopLoss stored
\* before.  In every other step of the evaluation the stopLoss stays as it is.
TrailingStopOnlyRaises ==
    [][\A k \in tasks \ tasks' :
           (/\ k.kind = "monitor" /\ k.pc \in {"price", "stop", "volatility"}
            /\ db[k.pos.id].status = "active" /\ db'[k.pos.id].status = "active") =>
               \/ db'[k.pos.id].stopLoss = db[k.pos.id].stopLoss
               \/ /\ k.pc = "stop"
                  /\ PnlPercentage(k.pos, k.price) > trailStopActivationPercentage
                  /\ db'[k.pos.id].stopLoss = TrailCandidate(k.price)
                  /\ TrailCandidate(k.price) > db[k.pos.id].stopLoss]_vars

\* a task of a monitoring round that is past its refresh: it adjusts a level
\* or exits next, or is inside the exit
PastRefresh(k) ==
    k.kind = "monitor" /\ k.pc \in {"stop", "volatility", "close", "settled", "failed"}

\* C24: a task of a monitoring round gets past its refresh only in the step
\* that has written the refreshed position (currentPrice, unrealizedPnL and
\* pnlPercentage at the fetched price) to the index and to the store; a task
\* whose price fetch or refresh fails ends in that step; and a task that
\* adjusts a level or works on an exit has come there from its refresh.
RefreshComesFirst ==
    [][/\ \A k \in tasks \ tasks' :
              (k.kind = "monitor" /\ k.pc = "price") =>
                  \/ tasks' = tasks \ {k}
                  \/ \E j \in tasks' \ tasks :
                         /\ PastRefresh(j) /\ j.price # Undef /\ j.pos = k.pos
                         /\ activePositions'[k.pos.tokenAddress] = MetricsUpdate(k.pos, j.price)
                         /\ db'[k.pos.id] = MergeUpdate(db[k.pos.id], MetricsUpdate(k.pos, j.price))
       /\ \A j \in tasks' \ tasks :
              PastRefresh(j) => \E k \in tasks \ tasks' : k.pc = "price" \/ PastRefresh(k)]_vars

\* C24, its case: a task has refreshed its position and decided to exit it,
\* and the store holds the refreshed position
ExitDecidedAfterRefresh ==
    \E k \in tasks :
        /\ k.kind = "monitor" /\ k.pc = "close"
        /\ k.price # k.pos.currentPrice
        /\ db[k.pos.id] = MetricsUpdate(k.pos, k.price)
        /\ activePositions[k.pos.tokenAddress] = MetricsUpdate(k.pos, k.price)

\* C25: what a task of a monitoring round records for its position uses the
\* one price the task has fetched: the refresh and the trailing-stop
\* candidate are computed from it, and the exit signal of the exit it has
\* decided carries it.
OnePricePerEvaluation ==
    [][\A k \in tasks \ tasks', j \in tasks' \ tasks :
           k.kind = "monitor" =>
               /\ k.pc = "price" =>
                      activePositions'[k.pos.tokenAddress] = MetricsUpdate(k.pos, j.price)
               /\ (k.pc = "stop" /\ activePositions'[k.pos.tokenAddress].id = k.pos.id) =>
                      activePositions'[k.pos.tokenAddress].stopLoss = TrailCandidate(k.price)
               /\ k.pc # "price" => j.price = k.price
               /\ k.pc = "close" => j.sig.price = k.price]_vars

\* C26: the quantity of every tradingSignal that has been emitted is at least
\* minPositionSizeSOL and at most the smaller of maxPositionSizeSOL and
\* balance * maxPositionSizePercentage.
SizeWithinLimits ==
    \A e \in events :
        e[1].topic = "tradingSignal" =>
            /\ e[1].detail.quantity >= minPositionSizeSOL * 100 * 100
            /\ e[1].detail.quantity <= maxPositionSizeSOL * 100 * 100
            /\ e[1].detail.quantity <= sizing.balance * sizing.maxPositionSizePercentage * 100

\* the position after one evaluation that does not exit and that no other
\* task interferes with: the refresh, the trailing stop, the take-profit
Reevaluated(position, price, volatility) ==
    [MetricsUpdate(position, price) EXCEPT
        !.stopLoss = IF TrailRaises(position, price) THEN TrailCandidate(price)
                     ELSE position.stopLoss,
        !.takeProfit = IF volatility > volatilityThreshold
                       THEN calculateDynamicTakeProfit(position, volatility)
                       ELSE position.takeProfit]

\* an evaluation of position at price does not exit
Holds(position, price) ==
    ~Leq(price, position.stopLoss) /\ ~Leq(position.takeProfit, price)

NoTerminalFields(position) ==
    /\ position.exitPrice = Undef
    /\ position.realizedPnL = Undef
    /\ position.closeReason = "none"

Refreshes(k) ==
    k.kind = "monitor" /\ k.pc = "price" /\ k \notin tasks' /\ faults' = faults

\* an earlier round's task has refreshed the position of k and is still in
\* flight
RefreshedBefore(k) ==
    \E j \in tasks :
        /\ j.kind = "monitor" /\ j.rid < k.rid /\ j.pos.id = k.pos.id
        /\ j.pc # "price"

\* C29: every metric refresh of a position that an earlier round has
\* refreshed stores a lastUpdated greater than the one the store holds for
\* the position.
LastUpdatedIncreases ==
    [][\A k \in tasks :
           (Refreshes(k) /\ RefreshedBefore(k)) =>
               db'[k.pos.id].lastUpdated > db[k.pos.id].lastUpdated]_vars

\* the positionClosed publications for position i
ClosedEvents(i) == {e \in events : e[1].topic = "positionClosed" /\ e[1].id = i}

\* C30: for every position, the venue has settled at most one exit trade and
\* at most one positionClosed has been published.
AtMostOneExit ==
    \A i \in DOMAIN db :
        /\ exits[i] <= 1
        /\ Cardinality(ClosedEvents(i)) <= 1

\* no operation is in flight: no task, no start() loading, no stop() closing
Quiescent ==
    /\ tasks = {}
    /\ startPc = "idle"
    /\ \A c \in 1..Len(stopPc) : stopPc[c] = "done"

\* the ids of the active records the store holds for token t
ActiveRecords(t) == {i \in DOMAIN db : db[i].tokenAddress = t /\ db[i].status = "active"}

StopRequested == stopCount > 0 /\ ~isRunning

\* C32: once stop() has been requested, and until a later start, the
\* execution of an entry signal creates no position and registers none.
NoEntryAfterStop ==
    [][(StopRequested /\ \E k \in tasks \ tasks' : k.kind = "entry" /\ k.pc = "evaluate") =>
           (db' = db /\ activePositions' = activePositions)]_vars

\* C33: at most one monitoring timer is live.
OneTimer == timers <= 1

\* C34: every active position of the index and of the store has its
\* stopLoss below its takeProfit.
StopBelowTarget ==
    /\ \A t \in Tokens :
           (activePositions[t].id # 0 /\ activePositions[t].status = "active") =>
               Gt(activePositions[t].takeProfit, activePositions[t].stopLoss)
    /\ \A i \in DOMAIN db :
           db[i].status = "active" => Gt(db[i].takeProfit, db[i].stopLoss)

\* task k's close reaches the store in this step
Closes(k) ==
    /\ k.kind = "monitor" /\ k.pc = "settled"
    /\ db[k.pos.id].status # "closed" /\ db'[k.pos.id].status = "closed"

Published(topic, i) == {e \in events : e[1].topic = topic /\ e[1].id = i}

\* no task is at work on position i
Settles(i) == \A k \in tasks : k.pos.id # i

ExitDue(i) ==
    /\ i \in DOMAIN db
    /\ db[i].status = "active"
    /\ Leq(db[i].currentPrice, db[i].stopLoss) \/ Leq(db[i].takeProfit, db[i].currentPrice)
    /\ isRunning /\ timers > 0

\* position i is stored with a terminal status
Ended(i) == i \in DOMAIN db /\ db[i].status \in Terminal

NoCallInFlight ==
    startPc = "idle" /\ \A c \in 1..Len(stopPc) : stopPc[c] = "done"

\* C38: whenever no start() and no stop() is in flight, Aelio.isRunning is
\* true only if the trading engine is running.
RunningFlagsAgree ==
    NoCallInFlight => (aelioRunning => isRunning)

\* a disconnect() call has completed, and no connect() call is in flight
Disconnected ==
    /\ \E c \in 1..Len(disconnectPc) : disconnectPc[c] = "done"
    /\ connecting = 0

\* C39: once disconnect() has completed, the service is disconnected: the
\* flag is false, the connection is closed, and no reconnection is in
\* flight or scheduled.
StaysDisconnected ==
    Disconnected =>
        /\ ~isConnected
        /\ link = "closed"
        /\ reconnecting = 0 /\ retryTimers = 0

=============================================================================
